---- MODULE Spec2Model ----
(***************************************************************************)
(* TerraGraph (nasa-gsac): the "Rainfall Prediction" page of src/main.py   *)
(* and the narrative summarizer of src/agent.py.                           *)
(*                                                                         *)
(* Measured values (mm, degrees C, m/s) are modelled in tenths of their    *)
(* unit, so the 0.5 mm threshold of predict_rainfall is the integer 5.     *)
(* Python's None is the record None; a raised exception is its class name  *)
(* in the variable raised, and aborts the script run (pc = "crashed").     *)
(***************************************************************************)
EXTENDS Integers, Sequences, FiniteSets, TLC

VARIABLES
    key,                \* main: text of the GhanaNLP key input (line 94)
    lat,                \* main: latitude input (line 102)
    pc,                 \* main: position of the script run
    data,               \* main: value returned by get_weather_data (line 110)
    rainfall_predicted, \* main: value returned by predict_rainfall (line 112)
    ai_insight,         \* main: value returned by analyze_weather_data (line 142)
    page,               \* the elements the run has put on the page, in order
    raised,             \* the exception that aborted the run, "" when none
    response,           \* get_weather_data: its local `response` (line 31)
    responder,          \* analyze_weather_data: outcome of the chat call (line 34)
    cache,              \* st.cache_data store of get_weather_data (line 24)
    requests,           \* per query, the HTTP GETs issued (line 31) and how each ended
    calls               \* the calls main has made in this run, in order

vars == <<key, lat, pc, data, rainfall_predicted, ai_insight, page, raised,
          response, responder, cache, requests, calls>>

---------------------------------------------------------------------------
(* Bounds of the model *)

\* longest series of a payload handed directly to the pipeline (SpecFn)
MaxLen == 2
\* longest series the weather API serves within a session (Spec)
ServedLen == 1
\* HTTP requests one session issues
MaxRequests == 2

---------------------------------------------------------------------------
(* Values *)

\* 0.5 mm, in tenths of a millimetre (predict_rainfall, line 57)
Threshold == 5

None == [none |-> TRUE]

\* `response` before line 31 has assigned it
Unbound == [bound |-> FALSE]

\* `responder` before line 34 has run
NoCall == [called |-> FALSE]

TempValues == {5, 250}
PrecipValues == {0, 6}
WindValues == {30}

\* the parameters the URL of line 26 asks for, in its order
UrlParameters == <<"t_2m:C", "precip_1h:mm", "wind_speed_10m:ms">>

\* coordinates[0].dates[] of one parameter block: {date, value} per hour
Dates(vals) == [i \in 1..Len(vals) |-> [date |-> i, value |-> vals[i]]]

Block(parameter, vals) ==
    [parameter |-> parameter, coordinates |-> <<[dates |-> Dates(vals)]>>]

\* the JSON document the weather API answers the URL of line 26 with:
\* one block per requested parameter, in the order of the request
Payload(t, p, w) ==
    [data |-> <<Block(UrlParameters[1], t),
                Block(UrlParameters[2], p),
                Block(UrlParameters[3], w)>>]

PayloadsOfLen(n) ==
    {Payload(t, p, w) : t \in [1..n -> TempValues],
                        p \in [1..n -> PrecipValues],
                        w \in [1..n -> WindValues]}

Payloads(maxLen) == UNION {PayloadsOfLen(n) : n \in 0..maxLen}

IsPayload(d) == d # None

---------------------------------------------------------------------------
(* src/main.py: the pure functions *)

\* [item['value'] for item in dates]
ValuesOf(dates) == [i \in 1..Len(dates) |-> dates[i].value]

\* the scan with >= in place of >
AnyAtLeast(s) == \E i \in 1..Len(s) : s[i] >= Threshold

\* any(precip > 0.5 for precip in precip_data): scans left to right
RECURSIVE AnyAbove(_)
AnyAbove(s) ==
    IF s = <<>> THEN FALSE
    ELSE IF Head(s) > Threshold THEN TRUE
    ELSE AnyAbove(Tail(s))

predict_rainfall(d) ==
    LET precip_data == ValuesOf(d.data[1].coordinates[1].dates)
    IN  AnyAbove(precip_data)

\* px.line(df, x='date', y='value'): one point per row of df, in row order
plot_weather_data(d, parameter) ==
    LET df == d.data[1].coordinates[1].dates
    IN  [title |-> parameter \o " over time",
         points |-> [i \in 1..Len(df) |-> <<df[i].date, df[i].value>>]]

create_heatmap(d, la, lo) ==
    LET precip_data == ValuesOf(d.data[1].coordinates[1].dates)
    IN  [location |-> <<la, lo>>,
         heat |-> [i \in 1..Len(precip_data) |-> <<la, lo, precip_data[i]>>]]

---------------------------------------------------------------------------
(* src/main.py: get_weather_data *)

Lats == {5, 52}

\* the argument tuple of the call at line 110
Query(la) ==
    [start_date |-> "2024-10-05", end_date |-> "2024-10-12",
     parameters |-> <<"precip_1h:mm", "t_2m:C">>, lat |-> la, lon |-> 13]

Queries == {Query(la) : la \in Lats}

\* line 26
Url(q) ==
    "https://api.meteomatics.com/" \o q.start_date \o "T00:00:00Z--"
        \o q.end_date \o "T00:00:00Z:PT1H/"
        \o UrlParameters[1] \o "," \o UrlParameters[2] \o "," \o UrlParameters[3]
        \o "/" \o ToString(q.lat) \o "," \o ToString(q.lon) \o "/json"

\* response.text: a JSON document, or something json.loads rejects
NotJson == [json |-> FALSE]
JsonText(p) == [json |-> TRUE, doc |-> p]

Statuses == {200, 304, 400, 401, 403, 404, 500}

\* what requests.get (line 31) can do: raise without a response (connection
\* error, timeout), or return a response with a status and a body
Outcomes ==
    {[net |-> "down"]}
    \cup {[net |-> "up", status |-> 200, text |-> JsonText(p)] :
            p \in Payloads(ServedLen)}
    \cup {[net |-> "up", status |-> s, text |-> NotJson] : s \in Statuses}

\* requests' Response.raise_for_status (line 32): HTTPError for 4xx and 5xx
raise_for_status(status) == 400 <= status /\ status < 600

Error(text) == [el |-> "error", text |-> text]
Write(text) == [el |-> "write", text |-> text]

\* lines 36-45 with 401 and 404 taking each other's message
StatusErrorsSwapped(status_code) ==
    IF status_code = 400 THEN
        <<Error("Bad request. Please check your input parameters and API credentials.")>>
    ELSE IF status_code = 401 THEN
        <<Error("Not found. The requested resource doesn't exist.")>>
    ELSE IF status_code = 403 THEN
        <<Error("Forbidden. You may not have permission to access this resource.")>>
    ELSE IF status_code = 404 THEN
        <<Error("Unauthorized. Please check your API credentials.")>>
    ELSE
        <<Error("An error occurred: " \o ToString(status_code))>>

\* lines 36-45: the if/elif chain over response.status_code
StatusErrors(status_code) ==
    IF status_code = 400 THEN
        <<Error("Bad request. Please check your input parameters and API credentials.")>>
    ELSE IF status_code = 401 THEN
        <<Error("Unauthorized. Please check your API credentials.")>>
    ELSE IF status_code = 403 THEN
        <<Error("Forbidden. You may not have permission to access this resource.")>>
    ELSE IF status_code = 404 THEN
        <<Error("Not found. The requested resource doesn't exist.")>>
    ELSE
        <<Error("An error occurred: " \o ToString(status_code))>>

\* lines 25-48, the undecorated function, on one outcome o of requests.get:
\* the value returned, the exception that leaves it, the elements it writes
\* and its local `response`
get_weather_data(q, o) ==
    LET req == <<Write("Requesting data from: " \o Url(q))>>
    IN  IF o.net = "down" THEN
            \* line 31 raises RequestException, line 35 reports it, line 36
            \* reads `response`, which line 31 never assigned
            [ret |-> None, exc |-> "UnboundLocalError",
             els |-> req \o <<Error("Failed to fetch data: ConnectionError")>>,
             response |-> Unbound]
        ELSE
            LET resp == [bound |-> TRUE, status_code |-> o.status, text |-> o.text]
            IN  IF raise_for_status(resp.status_code) THEN
                    [ret |-> None, exc |-> "",
                     els |-> req
                        \o <<Error("Failed to fetch data: "
                                   \o ToString(resp.status_code) \o " Error")>>
                        \o StatusErrors(resp.status_code)
                        \o <<Write("Response content:")>>,
                     response |-> resp]
                ELSE IF resp.text.json THEN
                    [ret |-> resp.text.doc, exc |-> "", els |-> req, response |-> resp]
                ELSE
                    \* json.loads (line 33) raises a ValueError, which
                    \* `except RequestException` does not catch
                    [ret |-> None, exc |-> "JSONDecodeError", els |-> req,
                     response |-> resp]

\* the function without its decorator: every call runs the body
CacheHitNever(q) == FALSE

\* @st.cache_data (line 24): a call whose arguments are in the store is
\* answered from it
CacheHit(q) == q \in DOMAIN cache

\* @st.cache_data stores whatever the function returns; a call that raises
\* stores nothing
Stored(r) == r.exc = ""

RECURSIVE SumOver(_)
SumOver(S) ==
    IF S = {} THEN 0
    ELSE LET q == CHOOSE x \in S : TRUE IN Len(requests[q]) + SumOver(S \ {q})

TotalRequests == SumOver(Queries)

Call(fn, arg, ret) == [fn |-> fn, arg |-> arg, ret |-> ret]

\* line 110, through the decorator of line 24
GetWeatherData ==
    /\ pc = "get_weather_data"
    /\ LET q == Query(lat)
       IN  \/ /\ CacheHit(q)
              /\ data' = cache[q].value
              /\ page' = page \o cache[q].els
              /\ calls' = Append(calls, Call("get_weather_data", q, cache[q].value))
              /\ pc' = "if_data"
              /\ UNCHANGED <<response, cache, requests, raised>>
           \/ /\ ~CacheHit(q)
              /\ TotalRequests < MaxRequests
              /\ \E o \in Outcomes :
                    LET r == get_weather_data(q, o)
                    IN  /\ requests' = [requests EXCEPT
                                        ![q] = Append(@, [ret |-> r.ret, exc |-> r.exc])]
                        /\ response' = r.response
                        /\ page' = page \o r.els
                        /\ calls' = Append(Append(calls, Call("requests.get", q, o.net)),
                                           Call("get_weather_data", q, r.ret))
                        /\ cache' = IF Stored(r)
                                    THEN (q :> [value |-> r.ret, els |-> r.els]) @@ cache
                                    ELSE cache
                        /\ IF r.exc = ""
                           THEN data' = r.ret /\ pc' = "if_data" /\ raised' = ""
                           ELSE data' = data /\ pc' = "crashed" /\ raised' = r.exc
    /\ UNCHANGED <<key, lat, rainfall_predicted, ai_insight, responder>>

---------------------------------------------------------------------------
(* src/agent.py: analyze_weather_data *)

\* what client.chat.completions.create (line 34) can do: raise, or return a
\* completion with a list of choices, each a message content
ChatOutcomes ==
    {[called |-> TRUE, exc |-> e, choices |-> <<>>] :
        e \in {"APIConnectionError", "AuthenticationError"}}
    \cup {[called |-> TRUE, exc |-> "", choices |-> c] :
        c \in {<<>>, <<"">>, <<"Rain is likely.">>, <<"Rain is likely.", "Dry.">>}}

\* the exception the try block (lines 16-46) ends with, "" when it returns:
\* line 34 raises, or line 44 indexes an empty list of choices
TryRaises(o) ==
    IF o.exc # "" THEN o.exc
    ELSE IF o.choices = <<>> THEN "IndexError"
    ELSE ""

\* line 48
Handler(e) ==
    "An error occurred during the AI analysis: " \o e
        \o ". Please check your internet connection or API key."

\* a handler that lets the exception through
HandlerReraises(e) == [ret |-> "", exc |-> e]

\* lines 47-48: `except Exception as e` returns the message
Except(e) == [ret |-> Handler(e), exc |-> ""]

\* line 44: responder.choices[0].message.content
FirstChoice(o) == o.choices[1]

\* lines 15-48 on one outcome o of the chat call: the value returned and
\* the exception that leaves the function
analyze_weather_data(d, o) ==
    IF TryRaises(o) # "" THEN Except(TryRaises(o))
    ELSE [ret |-> FirstChoice(o), exc |-> ""]

---------------------------------------------------------------------------
(* src/main.py: main, the "Rainfall Prediction" page *)

Keys == {"", "gnlp-key"}

\* np.random.randint(70, 100) (line 119): the ends of its range
Confidences == {70, 99}

\* api.tts(api.translate(...)) handed to st.audio (lines 136, 139): audio
\* bytes, a value st.audio rejects, or an exception of the call itself
TtsOutcomes == {"audio", "rejected", "raises"}

Metric(label, value) == [el |-> "metric", label |-> label, value |-> value]
Chart(fig) == [el |-> "plotly_chart", fig |-> fig]

\* lines 94-108: the user fills the inputs and presses "Predict Rainfall";
\* Streamlit runs the script anew on an empty page
Press ==
    /\ pc \in {"idle", "done", "crashed"}
    /\ \E k \in Keys, la \in Lats :
          /\ key' = k
          /\ lat' = la
    /\ pc' = "get_weather_data"
    /\ data' = None
    /\ rainfall_predicted' = FALSE
    /\ ai_insight' = ""
    /\ page' = <<>>
    /\ raised' = ""
    /\ response' = Unbound
    /\ responder' = NoCall
    /\ calls' = <<>>
    /\ UNCHANGED <<cache, requests>>

\* main without the test of line 111
AlwaysTruthy(d) == TRUE

\* `if data:` (line 111)
Truthy(d) == d # None

IfData ==
    /\ pc = "if_data"
    /\ pc' = IF Truthy(data) THEN "predict_rainfall" ELSE "done"
    /\ UNCHANGED <<key, lat, data, rainfall_predicted, ai_insight, page, raised,
                   response, responder, cache, requests, calls>>

\* line 112
PredictRainfall ==
    /\ pc = "predict_rainfall"
    /\ rainfall_predicted' = predict_rainfall(data)
    /\ calls' = Append(calls, Call("predict_rainfall", data, predict_rainfall(data)))
    /\ pc' = "metrics"
    /\ UNCHANGED <<key, lat, data, ai_insight, page, raised, response, responder,
                   cache, requests>>

\* lines 114-120
Metrics ==
    /\ pc = "metrics"
    /\ \E confidence \in Confidences :
          page' = page \o
            <<Metric("Rainfall Prediction",
                     IF rainfall_predicted THEN "Rain" ELSE "No Rain"),
              Metric("Prediction Confidence", ToString(confidence) \o "%")>>
    /\ pc' = "charts"
    /\ UNCHANGED <<key, lat, data, rainfall_predicted, ai_insight, raised, response,
                   responder, cache, requests, calls>>

\* lines 122-126: the two charts of the first tab (the degree sign of the
\* second label is left out of the string)
Charts ==
    /\ pc = "charts"
    /\ LET precip == plot_weather_data(data, "Precipitation (mm)")
           temp == plot_weather_data(data, "Temperature (C)")
       IN  /\ page' = page \o <<Chart(precip), Chart(temp)>>
           /\ calls' = calls \o <<Call("plot_weather_data", data, precip),
                                  Call("plot_weather_data", data, temp)>>
    /\ pc' = "heatmap"
    /\ UNCHANGED <<key, lat, data, rainfall_predicted, ai_insight, raised, response,
                   responder, cache, requests>>

\* lines 127-129
Heatmap ==
    /\ pc = "heatmap"
    /\ LET m == create_heatmap(data, lat, Query(lat).lon)
       IN  /\ page' = page \o <<Write("Precipitation Heatmap"),
                                [el |-> "folium_static", map |-> m]>>
           /\ calls' = Append(calls, Call("create_heatmap", data, m))
    /\ pc' = "insight"
    /\ UNCHANGED <<key, lat, data, rainfall_predicted, ai_insight, raised, response,
                   responder, cache, requests>>

\* lines 133-139: the advisory text, then its spoken translation. The calls
\* are made whatever the key is (line 95 builds the client from any text),
\* and no try/except encloses them
Insight ==
    /\ pc = "insight"
    /\ LET advisory ==
             IF rainfall_predicted
             THEN [el |-> "info", text |-> "Rainfall is expected in the coming days. Consider adjusting your irrigation schedule and preparing for potential water accumulation."]
             ELSE [el |-> "warning", text |-> "No significant rainfall is expected. Ensure your crops have adequate irrigation and consider water conservation measures."]
       IN  \E t \in TtsOutcomes :
              /\ calls' = Append(calls, Call("api.tts", advisory.text, t))
              /\ IF t = "audio"
                 THEN /\ page' = page \o <<advisory, [el |-> "audio"]>>
                      /\ pc' = "analyze"
                      /\ raised' = ""
                 ELSE /\ page' = Append(page, advisory)
                      /\ pc' = "crashed"
                      /\ raised' = IF t = "rejected" THEN "RuntimeError"
                                   ELSE "RequestException"
    /\ UNCHANGED <<key, lat, data, rainfall_predicted, ai_insight, response,
                   responder, cache, requests>>

\* lines 142-144
Analyze ==
    /\ pc = "analyze"
    /\ \E o \in ChatOutcomes :
          LET r == analyze_weather_data(data, o)
          IN  /\ responder' = o
              /\ calls' = Append(calls, Call("analyze_weather_data", data, r.ret))
              /\ IF r.exc = ""
                 THEN /\ ai_insight' = r.ret
                      /\ page' = Append(page, Write(r.ret))
                      /\ pc' = "done"
                      /\ raised' = ""
                 ELSE /\ ai_insight' = ai_insight
                      /\ page' = page
                      /\ pc' = "crashed"
                      /\ raised' = r.exc
    /\ UNCHANGED <<key, lat, data, rainfall_predicted, response, cache, requests>>

---------------------------------------------------------------------------
(* Specifications *)

\* a session: the page as first rendered, the cache empty
Init ==
    /\ key = ""
    /\ lat = 52
    /\ pc = "idle"
    /\ data = None
    /\ rainfall_predicted = FALSE
    /\ ai_insight = ""
    /\ page = <<>>
    /\ raised = ""
    /\ response = Unbound
    /\ responder = NoCall
    /\ cache = <<>>
    /\ requests = [q \in Queries |-> <<>>]
    /\ calls = <<>>

Pipeline ==
    \/ IfData
    \/ PredictRainfall
    \/ Metrics
    \/ Charts
    \/ Heatmap
    \/ Insight
    \/ Analyze

Next ==
    \/ Press
    \/ GetWeatherData
    \/ Pipeline

Spec == Init /\ [][Next]_vars

\* one run of lines 111-144 on a payload the fetch has just returned
InitFn ==
    /\ key \in Keys
    /\ lat = 52
    /\ pc = "if_data"
    /\ data \in Payloads(MaxLen)
    /\ rainfall_predicted = FALSE
    /\ ai_insight = ""
    /\ page = <<Write("Requesting data from: " \o Url(Query(lat)))>>
    /\ raised = ""
    /\ response = [bound |-> TRUE, status_code |-> 200, text |-> JsonText(data)]
    /\ responder = NoCall
    /\ cache = (Query(lat) :> [value |-> data, els |-> page])
    /\ requests = [q \in Queries |->
                      IF q = Query(lat) THEN <<[ret |-> data, exc |-> ""]>> ELSE <<>>]
    /\ calls = <<Call("requests.get", Query(lat), "up"),
                 Call("get_weather_data", Query(lat), data)>>

SpecFn == InitFn /\ [][Pipeline]_vars

---------------------------------------------------------------------------
(* Properties *)

CallsOf(fn) == {i \in DOMAIN calls : calls[i].fn = fn}

Consumers ==
    {"predict_rainfall", "plot_weather_data", "create_heatmap",
     "analyze_weather_data"}

\* the series of the block of `parameter` in payload d
SeriesOf(d, parameter) ==
    LET i == CHOOSE j \in 1..Len(d.data) : d.data[j].parameter = parameter
    IN  d.data[i].coordinates[1].dates

\* the values of the series predict_rainfall scans in payload d
Scanned(d) == ValuesOf(d.data[1].coordinates[1].dates)

\* C1: every call of predict_rainfall returns true exactly when the series
\* it scans holds a value above 0.5 (so false when every value is at most
\* 0.5, a value of exactly 0.5 included), and false for the empty series.
C1_ThresholdVerdict ==
    \A i \in CallsOf("predict_rainfall") :
        LET s == Scanned(calls[i].arg)
        IN  /\ calls[i].ret = (\E j \in 1..Len(s) : s[j] > 5)
            /\ (s = <<>> => calls[i].ret = FALSE)
            /\ (pc = "metrics" => raised = "")

\* C1 witness: a two-sample series with one value at exactly 0.5 and one
\* above it was classified true
C1_Witness ==
    \E i \in CallsOf("predict_rainfall") :
        /\ Scanned(calls[i].arg) = <<5, 250>>
        /\ calls[i].ret = TRUE

\* a series whose values are all exactly 0.5 was classified false
C1_WitnessBoundary ==
    \E i \in CallsOf("predict_rainfall") :
        /\ Scanned(calls[i].arg) = <<5, 5>>
        /\ calls[i].ret = FALSE

\* the empty series was classified false
C1_WitnessEmpty ==
    \E i \in CallsOf("predict_rainfall") :
        /\ Scanned(calls[i].arg) = <<>>
        /\ calls[i].ret = FALSE

\* a request of this run ended without a payload: no HTTP response at all,
\* or a response whose status is not 2xx
FetchFailed ==
    \E i \in CallsOf("requests.get") :
        \/ calls[i].ret = "down"
        \/ /\ response.bound
           /\ ~(200 <= response.status_code /\ response.status_code < 300)

\* C2: after a failed fetch (no HTTP response, or a non-2xx status) the call
\* has returned None to main: no exception left it and data is None.
C2_FailedFetchReturnsNone ==
    FetchFailed => /\ raised = ""
                   /\ pc # "crashed"
                   /\ data = None

\* C3: the verdict of every predict_rainfall call is true exactly when some
\* sample of the payload's precip_1h:mm block exceeds 0.5 mm, so it does not
\* depend on the temperature or wind samples.
C3_VerdictFromPrecipitation ==
    \A i \in CallsOf("predict_rainfall") :
        LET precip == ValuesOf(SeriesOf(calls[i].arg, "precip_1h:mm"))
        IN  calls[i].ret = (\E j \in 1..Len(precip) : precip[j] > 5)

HasPayload(q) == q \in DOMAIN cache /\ IsPayload(cache[q].value)

ReturnedPayload(entry) == entry.exc = "" /\ IsPayload(entry.ret)

\* C4: once a query has returned a payload, no further HTTP request is
\* issued for it: the request that returned the payload is the last one in
\* the query's request log and the only one that returned a payload, and
\* every call for that query in the current run returns that same payload.
C4_NoSecondRequest ==
    \A q \in Queries :
        HasPayload(q) =>
            LET log == requests[q]
            IN  /\ log # <<>>
                /\ ReturnedPayload(log[Len(log)])
                /\ log[Len(log)].ret = cache[q].value
                /\ \A j \in 1..(Len(log) - 1) : ~ReturnedPayload(log[j])
                /\ \A i \in CallsOf("get_weather_data") :
                      calls[i].arg = q => calls[i].ret = cache[q].value

\* C4 witness: a run answered from the cache: the call returned the payload
\* of the single earlier request and this run issued no request
C4_Witness ==
    /\ pc = "if_data"
    /\ HasPayload(Query(lat))
    /\ Len(requests[Query(lat)]) = 1
    /\ CallsOf("requests.get") = {}
    /\ CallsOf("get_weather_data") # {}
    /\ data = cache[Query(lat)].value

\* C5: in one run, every call of a consumer (classification, charts,
\* heatmap, summarization) comes after the run's single get_weather_data
\* call and takes the payload that call returned; the run issues at most one
\* request; and no consumer is reached when the fetch returned no data.
C5_FetchThenConsume ==
    /\ Cardinality(CallsOf("get_weather_data")) <= 1
    /\ Cardinality(CallsOf("requests.get")) <= 1
    /\ \A i \in DOMAIN calls :
          calls[i].fn \in Consumers =>
              /\ IsPayload(calls[i].arg)
              /\ \E j \in CallsOf("get_weather_data") :
                    j < i /\ calls[j].ret = calls[i].arg
    /\ pc \in {"predict_rainfall", "metrics", "charts", "heatmap", "insight",
               "analyze"} =>
          /\ IsPayload(data)
          /\ \E j \in CallsOf("get_weather_data") : calls[j].ret = data
    /\ (pc = "done" /\ ~IsPayload(data)) =>
          \A i \in DOMAIN calls : calls[i].fn \notin Consumers

\* C5 witness: a run that went through all consumers
C5_Witness ==
    /\ pc = "done"
    /\ IsPayload(data)
    /\ \A fn \in Consumers : CallsOf(fn) # {}

C5_WitnessNoData ==
    /\ pc = "done"
    /\ data = None
    /\ CallsOf("get_weather_data") # {}

\* the chat call raised, or answered without any choice
ChatFailed == responder.exc # "" \/ responder.choices = <<>>

\* C6: when the chat call fails, analyze_weather_data returns a non-empty
\* message and nothing propagates (the run ends normally with the message
\* on the page); when it succeeds, the text of the first choice is returned
\* unchanged.
C6_SummarizerContainsErrors ==
    responder.called =>
        /\ raised = ""
        /\ pc = "done"
        /\ page # <<>>
        /\ page[Len(page)] = Write(ai_insight)
        /\ IF ChatFailed
           THEN Len(ai_insight) > 0
           ELSE ai_insight = responder.choices[1]

\* C6 witness: an authentication failure turned into a message
C6_Witness ==
    /\ responder.called
    /\ responder.exc = "AuthenticationError"
    /\ pc = "done"
    /\ Len(ai_insight) > 0

C6_WitnessFirstChoice ==
    /\ responder.called
    /\ responder.exc = ""
    /\ Len(responder.choices) = 2
    /\ ai_insight = "Rain is likely."

\* C7: with no GhanaNLP key the translate/tts calls cannot abort the run: a
\* run whose fetch succeeded ends normally, with the advisory and the AI
\* insight on the page.
C7_NoKeyDegradesGracefully ==
    (key = "" /\ IsPayload(data) /\ pc \in {"done", "crashed"}) =>
        /\ pc = "done"
        /\ raised = ""
        /\ \E i \in DOMAIN page : page[i].el \in {"info", "warning"}
        /\ responder.called
        /\ page[Len(page)] = Write(ai_insight)

\* the error elements of the page other than the "Failed to fetch data"
\* line: the category messages
CategoryMessages ==
    SelectSeq(page,
              LAMBDA e : /\ e.el = "error"
                         /\ e.text # "Failed to fetch data: "
                                       \o ToString(response.status_code) \o " Error")

\* the message the claim gives each status
ExpectedCategory(status) ==
    CASE status = 400 ->
           "Bad request. Please check your input parameters and API credentials."
      [] status = 401 -> "Unauthorized. Please check your API credentials."
      [] status = 403 ->
           "Forbidden. You may not have permission to access this resource."
      [] status = 404 -> "Not found. The requested resource doesn't exist."
      [] OTHER -> "An error occurred: " \o ToString(status)

ParameterOf(title) ==
    IF title = "Precipitation (mm) over time" THEN "precip_1h:mm" ELSE "t_2m:C"

\* C9: every chart plots exactly the samples of its own parameter's series,
\* one point per sample, in order.
C9_ChartShowsOwnParameter ==
    \A i \in CallsOf("plot_weather_data") :
        LET series == SeriesOf(calls[i].arg, ParameterOf(calls[i].ret.title))
        IN  calls[i].ret.points =
                [j \in 1..Len(series) |-> <<series[j].date, series[j].value>>]

\* C10: the cache holds payloads only, and a call that returns None has
\* just issued its own request (it is never answered from a remembered
\* failure).
C10_OnlyPayloadsCached ==
    /\ \A q \in DOMAIN cache : IsPayload(cache[q].value)
    /\ \A i \in CallsOf("get_weather_data") :
          calls[i].ret = None => (i > 1 /\ calls[i - 1].fn = "requests.get")

====
